---- MODULE Spec2Model ----
(***************************************************************************)
(* A model of implgen's source-mode front end (parse.go) and of its        *)
(* identifier allocator (identifier_allocator.go).                         *)
(*                                                                         *)
(* Go strings that are used as package keys (import paths, package short   *)
(* names, the package context handed to parseInterface) are modelled as    *)
(* sequences of tokens, so that a short name such as "x" and a path such   *)
(* as "p/x" are values of one type, as they are in the program, and so     *)
(* that path.Split and strings.SplitN are computed and not assumed.        *)
(***************************************************************************)
EXTENDS Integers, Sequences, FiniteSets, TLC

VARIABLES
    input,      \* what sourceMode is run on: entry file, -aux_files, -imports
    pc,         \* position of the top-level sourceMode call
    parsers,    \* heap of fileParser objects; parsers[1] is the entry parser
    stack,      \* call stack of parseInterface activations
    is,         \* parseFile's local slice `is`
    ret,        \* what sourceMode returned (or how the process ended)
    parseLog,   \* every parsePackage call that located and scanned a package
    scanned,    \* the file and -imports that fresh sourceMode runs are given
    runs,       \* what each of those runs yielded and returned
    seed,       \* the names an identifierAllocator was made with
    taken,      \* the identifierAllocator, a set of names
    call,       \* the allocateIdentifier call in progress: want, id, i
    returned,   \* the allocateIdentifier calls that returned, in order
    sig,        \* the function type a translator is applied to
    trans,      \* which translator was applied, to what, and its result
    chFile,     \* the declarations of the file parseFile scans
    prodI,      \* the goroutine iterInterfaces starts: position in the file
    prodS,      \* the goroutine iterStruct starts: what it sends, position
    cons,       \* parseFile, the receiver: position, is, ss, what it returned
    sent,       \* the interfaces the sender has reached `ch <-` with, in order
    received,   \* the interfaces parseFile's range loop has been given
    env,        \* what parsePackageImport runs in: srcDir, go.mod files, environment
    walk,       \* the parsePackageImport call: position, currentDir, what it returned
    impFile,    \* the file importsOfFile is applied to
    impTable    \* what importsOfFile returned for it

resolveVars == <<input, pc, parsers, stack, is, ret, parseLog>>
scanVars == <<scanned, runs>>
allocVars == <<seed, taken, call, returned>>
transVars == <<sig, trans>>
chanVars == <<chFile, prodI, prodS, cons, sent, received>>
locVars == <<env, walk>>
impVars == <<impFile, impTable>>
restVars == <<transVars, chanVars, locVars, impVars>>
vars == <<resolveVars, scanVars, allocVars, restVars>>

(***************************************************************************)
(* Strings as token sequences.                                             *)
(***************************************************************************)
Slash == "/"
Dot == "."

EmptyStr == <<>>

RECURSIVE LastIndexOf(_, _)
\* strings.LastIndex for a one-token separator; 0 when absent.
LastIndexOf(s, tok) ==
    IF Len(s) = 0 THEN 0
    ELSE IF s[Len(s)] = tok THEN Len(s)
    ELSE LastIndexOf(SubSeq(s, 1, Len(s) - 1), tok)

RECURSIVE IndexOf(_, _)
\* strings.Index for a one-token separator; 0 when absent.
IndexOf(s, tok) ==
    IF Len(s) = 0 THEN 0
    ELSE IF s[1] = tok THEN 1
    ELSE LET r == IndexOf(Tail(s), tok) IN IF r = 0 THEN 0 ELSE r + 1

\* path.Split(importPath): the part after the final slash.
PathBase(p) == SubSeq(p, LastIndexOf(p, Slash) + 1, Len(p))

\* strings.SplitN(last, ".", 2)[0]
FirstDotField(last) ==
    LET i == IndexOf(last, Dot)
    IN  IF i = 0 THEN last ELSE SubSeq(last, 1, i - 1)

(***************************************************************************)
(* Maps (Go map[K]V) as functions with a finite domain.                    *)
(***************************************************************************)
EmptyMap == [k \in {} |-> 0]

MapPut(m, k, v) == [y \in DOMAIN m \cup {k} |-> IF y = k THEN v ELSE m[y]]

Has(m, k) == k \in DOMAIN m

(***************************************************************************)
(* importedPackage: importedPkg{path, parser} or duplicateImport{name,     *)
(* duplicates}.  parser = 0 is the nil *fileParser.                        *)
(***************************************************************************)
importedPkg(path, parser) ==
    [t |-> "pkg", path |-> path, parser |-> parser,
     name |-> EmptyStr, duplicates |-> <<>>]

duplicateImport(name, duplicates) ==
    [t |-> "dup", path |-> EmptyStr, parser |-> 0,
     name |-> name, duplicates |-> duplicates]

(***************************************************************************)
(* Syntax trees.                                                           *)
(***************************************************************************)
NoAlias == EmptyStr          \* ast.ImportSpec.Name == nil
BlankAlias == <<"_">>
DotAlias == <<Dot>>

ImportSpec(alias, path) == [name |-> alias, path |-> path]

\* type expressions of a method's parameter
PredeclaredExpr(n) == [k |-> "ident", exported |-> FALSE, pkg |-> EmptyStr, name |-> n]
ExportedExpr(n) == [k |-> "ident", exported |-> TRUE, pkg |-> EmptyStr, name |-> n]
SelectorTypeExpr(pkg, n) == [k |-> "sel", exported |-> TRUE, pkg |-> pkg, name |-> n]
\* *ast.ArrayType{Len, Elt} and *ast.Ellipsis{Elt}
ArrayTypeExpr(len, elt) == [k |-> "array", len |-> len, elt |-> elt]
EllipsisExpr(elt) == [k |-> "ellipsis", elt |-> elt]
\* ast.ArrayType.Len: nil, a *ast.BasicLit with its source text (a sequence
\* of characters), or some other expression such as a constant's name
NilLen == [k |-> "nil", value |-> <<>>]
BasicLit(value) == [k |-> "lit", value |-> value]
IdentLen(n) == [k |-> "ident", value |-> <<n>>]
\* ast.Field of a parameter list: the names of one group and their type
Field(names, typ) == [names |-> names, typ |-> typ]
\* ast.FuncType
FuncType(params, results) == [params |-> params, results |-> results]

\* entries of an interface's method list (ast.Field of it.Methods.List)
FuncField(n, typ) == [k |-> "func", name |-> n, pkg |-> EmptyStr, typ |-> typ]
IdentField(n) == [k |-> "ident", name |-> n, pkg |-> EmptyStr, typ |-> PredeclaredExpr("")]
SelectorField(pkg, n) == [k |-> "sel", name |-> n, pkg |-> pkg, typ |-> PredeclaredExpr("")]
OtherField == [k |-> "other", name |-> "", pkg |-> EmptyStr, typ |-> PredeclaredExpr("")]

\* top-level declarations
InterfaceDecl(n, it) == [k |-> "iface", name |-> n, it |-> it, recv |-> "", ptr |-> FALSE]
StructDecl(n) == [k |-> "struct", name |-> n, it |-> <<>>, recv |-> "", ptr |-> FALSE]
\* a FuncDecl; recv = "" when it has no receiver
FuncDecl(n, recv, ptr) == [k |-> "func", name |-> n, it |-> <<>>, recv |-> recv, ptr |-> ptr]

File(name, imports, decls) == [name |-> name, imports |-> imports, decls |-> decls]

\* namedInterface; it = nil is ok = FALSE
namedInterface(n, it) == [ok |-> TRUE, name |-> n, it |-> it]
NilInterface == [ok |-> FALSE, name |-> "", it |-> <<>>]

(***************************************************************************)
(* The output model (package model).                                       *)
(***************************************************************************)
PredeclaredType(n) == [k |-> "predeclared", pkg |-> EmptyStr, name |-> n]
NamedType(pkg, n) == [k |-> "named", pkg |-> pkg, name |-> n]
Method(n, in) == [name |-> n, in |-> in]
ArrayType(len, t) == [k |-> "array", len |-> len, elt |-> t]
\* *model.Parameter, and the nil pointer
Parameter(n, t) == [nil |-> FALSE, name |-> n, typ |-> t]
NilParameter == [nil |-> TRUE, name |-> "", typ |-> PredeclaredType("")]
Interface(n, methods) == [name |-> n, methods |-> methods]
Struct(n, methods) == [name |-> n, methods |-> methods]
Package(name, path, ifs, ss, dots) ==
    [name |-> name, pkgPath |-> path, interfaces |-> ifs,
     structNames |-> ss, dotImports |-> dots]

NoError == [kind |-> "", arg |-> <<>>]
Error(kind, arg) == [kind |-> kind, arg |-> arg]

(***************************************************************************)
(* The build environment: the packages build.Import can locate, and what   *)
(* parser.ParseDir and ast.MergePackageFiles yield for each.               *)
(***************************************************************************)
X == <<"x">>
Y == <<"y">>
PX == <<"p", Slash, "x">>
PY == <<"p", Slash, "y">>
PZ == <<"p", Slash, "z">>                 \* its package clause says x
QX == <<"q", Slash, "x", Dot, "v2">>      \* no such directory
SelfPath == <<"m", Slash, "s">>           \* parsePackageImport(srcDir)
S == <<"s">>

Disk == {PX, PY, PZ}

PackageOnDisk(path) ==
    CASE path = PX ->
           File(X, <<ImportSpec(NoAlias, PY)>>,
                <<InterfaceDecl("E", <<FuncField("Ex", ExportedExpr("T"))>>),
                  InterfaceDecl("K", <<SelectorField(Y, "K")>>)>>)
      [] path = PY ->
           File(Y, <<ImportSpec(NoAlias, PX)>>,
                <<InterfaceDecl("E", <<FuncField("Ey", PredeclaredExpr("int")),
                                       SelectorField(X, "E")>>),
                  InterfaceDecl("K", <<SelectorField(X, "K")>>)>>)
      [] path = PZ ->
           File(X, <<>>,
                <<InterfaceDecl("E", <<FuncField("Ez", PredeclaredExpr("int"))>>)>>)

\* createPackageMap: `go list -json` names the packages it can load.
createPackageMap(importPaths) ==
    [p \in {importPaths[i] : i \in DOMAIN importPaths} \cap Disk |->
        PackageOnDisk(p).name]

(***************************************************************************)
(* importsOfFile                                                           *)
(***************************************************************************)
RECURSIVE UnnamedPaths(_)
UnnamedPaths(imports) ==
    IF imports = <<>> THEN <<>>
    ELSE IF Head(imports).name # NoAlias THEN UnnamedPaths(Tail(imports))
    ELSE <<Head(imports).path>> \o UnnamedPaths(Tail(imports))

\* the package name one import spec is filed under; BlankAlias means skipped
PkgNameOf(spec, packagesName) ==
    IF spec.name # NoAlias THEN spec.name
    ELSE IF Has(packagesName, spec.path) THEN packagesName[spec.path]
    ELSE FirstDotField(PathBase(spec.path))

\* the mutated collision branch: the later import replaces the earlier one
CollideOverwrite(old, pkgName, importPath) == importedPkg(importPath, 0)

\* lines 636-648: a second import under a package name already present
Collide(old, pkgName, importPath) ==
    IF old.t = "dup"
    THEN duplicateImport(old.name, <<importPath>> \o old.duplicates)
    ELSE duplicateImport(pkgName, <<old.path, importPath>>)

RECURSIVE ImportLoop(_, _, _)
ImportLoop(imports, packagesName, acc) ==
    IF imports = <<>> THEN acc
    ELSE LET spec == Head(imports)
             pkgName == PkgNameOf(spec, packagesName)
             next ==
                IF spec.name = BlankAlias THEN acc
                ELSE IF pkgName = DotAlias
                THEN [acc EXCEPT !.dot = Append(@, spec.path)]
                ELSE IF Has(acc.normal, pkgName)
                THEN [acc EXCEPT !.normal =
                        MapPut(@, pkgName, Collide(acc.normal[pkgName], pkgName, spec.path))]
                ELSE [acc EXCEPT !.normal =
                        MapPut(@, pkgName, importedPkg(spec.path, 0))]
         IN  ImportLoop(Tail(imports), packagesName, next)

importsOfFile(file) ==
    ImportLoop(file.imports, createPackageMap(UnnamedPaths(file.imports)),
               [normal |-> EmptyMap, dot |-> <<>>])

(***************************************************************************)
(* iterInterfaces: the interface declarations of a file, in source order.  *)
(***************************************************************************)
RECURSIVE iterInterfaces(_)
iterInterfaces(decls) ==
    IF decls = <<>> THEN <<>>
    ELSE IF Head(decls).k = "iface"
    THEN <<namedInterface(Head(decls).name, Head(decls).it)>> \o iterInterfaces(Tail(decls))
    ELSE iterInterfaces(Tail(decls))

RECURSIVE ByName(_, _)
\* for ni := range ch { m[ni.name.Name] = ni }
ByName(nis, acc) ==
    IF nis = <<>> THEN acc
    ELSE ByName(Tail(nis), MapPut(acc, Head(nis).name, Head(nis)))

\* the mutated lookup: nothing is ever found
LookupNothing(m, pkg, n) == NilInterface

\* m[pkg][name], the zero value when either key is absent
Lookup(m, pkg, n) ==
    IF Has(m, pkg) /\ Has(m[pkg], n) THEN m[pkg][n] ELSE NilInterface

(***************************************************************************)
(* iterStruct: what the producer goroutine sends, for every order in which *)
(* `range structMap` may visit the map.                                     *)
(***************************************************************************)
namedStruct(n, methods) == [name |-> n, methods |-> methods]

RECURSIVE CollectStructs(_, _)
\* lines 676-693: first pass, the struct declarations by name
CollectStructs(decls, acc) ==
    IF decls = <<>> THEN acc
    ELSE IF Head(decls).k = "struct"
    THEN CollectStructs(Tail(decls), MapPut(acc, Head(decls).name, namedStruct(Head(decls).name, <<>>)))
    ELSE CollectStructs(Tail(decls), acc)

\* lines 700-715: attach a FuncDecl to the struct its receiver names
AttachMethod(structMap, gd) ==
    IF gd.recv # "" /\ Has(structMap, gd.recv)
    THEN [structMap EXCEPT ![gd.recv].methods = Append(@, gd.name)]
    ELSE structMap

\* every order in which one `range` over a map with key set K can run
Orders(K) == {o \in [1..Cardinality(K) -> K] : \A i, j \in DOMAIN o : i # j => o[i] # o[j]}

\* lines 716-718: `for _, s := range structMap`, Go leaves the order open
RangeOrders(structMap) == Orders(DOMAIN structMap)

Emit(structMap, order) == [i \in DOMAIN order |-> structMap[order[i]]]

RECURSIVE StructLoop(_, _)
\* lines 695-719: second pass; the set of sequences the channel can carry
StructLoop(rest, structMap) ==
    IF rest = <<>> THEN {<<>>}
    ELSE IF Head(rest).k # "func" THEN StructLoop(Tail(rest), structMap)
    ELSE LET m == AttachMethod(structMap, Head(rest))
         IN  UNION {{Emit(m, o) \o tl : tl \in StructLoop(Tail(rest), m)} :
                        o \in RangeOrders(m)}

iterStruct(decls) == StructLoop(decls, CollectStructs(decls, EmptyMap))

\* parseStruct: Methods is a map keyed by method name
parseStruct(ni) == Struct(ni.name, {ni.methods[i] : i \in DOMAIN ni.methods})

(***************************************************************************)
(* fileParser                                                              *)
(***************************************************************************)
fileParser(imports, aux, imported, auxFiles) ==
    [imports |-> imports, auxInterfaces |-> aux,
     importedInterfaces |-> imported, auxFiles |-> auxFiles]

NewParser == fileParser(EmptyMap, EmptyMap, EmptyMap, <<>>)

RECURSIVE HandleImportsFlag(_, _)
\* sourceMode lines 76-88: -imports, k=v pairs; "." goes to dotImports
HandleImportsFlag(kvs, imports) ==
    IF kvs = <<>> THEN imports
    ELSE IF Head(kvs).k = DotAlias THEN HandleImportsFlag(Tail(kvs), imports)
    ELSE HandleImportsFlag(Tail(kvs), MapPut(imports, Head(kvs).k, importedPkg(Head(kvs).v, 0)))

\* sourceMode line 82: the set dotImports
DotImportsFlag(kvs) == {kvs[i].v : i \in {j \in DOMAIN kvs : kvs[j].k = DotAlias}}

\* addAuxInterfacesFromFile, the interface half
addAuxInterfacesFromFile(aux, pkg, file) ==
    MapPut(aux, pkg, ByName(iterInterfaces(file.decls), IF Has(aux, pkg) THEN aux[pkg] ELSE EmptyMap))

RECURSIVE parseAuxFiles(_, _)
parseAuxFiles(auxSpecs, p) ==
    IF auxSpecs = <<>> THEN p
    ELSE parseAuxFiles(Tail(auxSpecs),
            [p EXCEPT !.auxFiles = Append(@, Head(auxSpecs).file),
                      !.auxInterfaces = addAuxInterfacesFromFile(@, Head(auxSpecs).pkg, Head(auxSpecs).file)])

\* the mutated merge: a file's import replaces what the table already holds
MergeStomp(table, new) ==
    [n \in DOMAIN table \cup DOMAIN new |-> IF n \in DOMAIN new THEN new[n] ELSE table[n]]

\* parseFile lines 199-203 and 208-212: add only names not yet present
MergeImports(table, new) ==
    [n \in DOMAIN table \cup DOMAIN new |-> IF n \in DOMAIN table THEN table[n] ELSE new[n]]

RECURSIVE MergeAuxImports(_, _)
\* parseFile lines 206-213
MergeAuxImports(table, auxFiles) ==
    IF auxFiles = <<>> THEN table
    ELSE MergeAuxImports(MergeImports(table, importsOfFile(Head(auxFiles)).normal), Tail(auxFiles))

\* parsePackage: the fresh fileParser for a package that is on disk
parsePackage(path) ==
    LET file == PackageOnDisk(path)
    IN  fileParser(importsOfFile(file).normal, EmptyMap,
                   MapPut(EmptyMap, path, ByName(iterInterfaces(file.decls), EmptyMap)), <<>>)

\* the mutated translation: an ambiguous import is used like a resolved one
parseTypeUnchecked(p, pkg, typ) ==
    IF typ.k = "sel"
    THEN IF ~Has(p.imports, typ.pkg)
         THEN [st |-> "err", val |-> PredeclaredType(""), err |-> Error("unknown package", typ.pkg)]
         ELSE [st |-> "ok", val |-> NamedType(p.imports[typ.pkg].path, typ.name), err |-> NoError]
    ELSE IF typ.exported
    THEN IF Has(p.imports, pkg)
         THEN [st |-> "ok", val |-> NamedType(p.imports[pkg].path, typ.name), err |-> NoError]
         ELSE [st |-> "ok", val |-> NamedType(pkg, typ.name), err |-> NoError]
    ELSE [st |-> "ok", val |-> PredeclaredType(typ.name), err |-> NoError]

\* the decimal digits strconv.Atoi reads
DigitValue(c) ==
    CASE c = "0" -> 0 [] c = "1" -> 1 [] c = "2" -> 2 [] c = "3" -> 3
      [] c = "4" -> 4 [] c = "5" -> 5 [] c = "6" -> 6 [] c = "7" -> 7
      [] c = "8" -> 8 [] c = "9" -> 9 [] OTHER -> -1

RECURSIVE DecimalValue(_, _)
DecimalValue(cs, acc) ==
    IF cs = <<>> THEN acc
    ELSE DecimalValue(Tail(cs), 10 * acc + DigitValue(Head(cs)))

\* strconv.Atoi: an optional sign and base-10 digits, nothing else
Atoi(cs) ==
    LET signed == cs # <<>> /\ Head(cs) \in {"+", "-"}
        ds     == IF signed THEN Tail(cs) ELSE cs
    IN  IF ds = <<>> \/ \E i \in DOMAIN ds : DigitValue(ds[i]) < 0
        THEN [ok |-> FALSE, val |-> 0]
        ELSE [ok |-> TRUE,
              val |-> IF signed /\ Head(cs) = "-" THEN 0 - DecimalValue(ds, 0)
                      ELSE DecimalValue(ds, 0)]

\* parseType lines 507-514; v.Len.(*ast.BasicLit) panics on any other node
ArrayLen(len) ==
    IF len.k = "nil" THEN [st |-> "ok", val |-> -1, err |-> NoError]
    ELSE IF len.k # "lit"
    THEN [st |-> "panic", val |-> 0, err |-> Error("interface conversion", len.value)]
    ELSE LET x == Atoi(len.value)
         IN  IF x.ok THEN [st |-> "ok", val |-> x.val, err |-> NoError]
             ELSE [st |-> "err", val |-> 0, err |-> Error("bad array size", len.value)]

\* parseType lines 507-519, given the length and the element's translation
ArrayOf(ln, t) ==
    IF ln.st # "ok" THEN [st |-> ln.st, val |-> PredeclaredType(""), err |-> ln.err]
    ELSE IF t.st # "ok" THEN t
    ELSE [st |-> "ok", val |-> ArrayType(ln.val, t.val), err |-> NoError]

RECURSIVE parseType(_, _, _)
\* parseType: lines 506-519 (ArrayType), 533-535 (Ellipsis), 542-555 (Ident)
\* and 571-577 (SelectorExpr)
parseType(p, pkg, typ) ==
    IF typ.k = "array" THEN ArrayOf(ArrayLen(typ.len), parseType(p, pkg, typ.elt))
    ELSE IF typ.k = "ellipsis" THEN parseType(p, pkg, typ.elt)
    ELSE IF typ.k = "sel"
    THEN IF ~Has(p.imports, typ.pkg)
         THEN [st |-> "err", val |-> PredeclaredType(""), err |-> Error("unknown package", typ.pkg)]
         ELSE IF p.imports[typ.pkg].t = "dup"
         THEN [st |-> "fatal", val |-> PredeclaredType(""), err |-> Error("ambigous", p.imports[typ.pkg])]
         ELSE [st |-> "ok", val |-> NamedType(p.imports[typ.pkg].path, typ.name), err |-> NoError]
    ELSE IF typ.exported
    THEN IF Has(p.imports, pkg)
         THEN IF p.imports[pkg].t = "dup"
              THEN [st |-> "fatal", val |-> PredeclaredType(""), err |-> Error("ambigous", p.imports[pkg])]
              ELSE [st |-> "ok", val |-> NamedType(p.imports[pkg].path, typ.name), err |-> NoError]
         ELSE [st |-> "ok", val |-> NamedType(pkg, typ.name), err |-> NoError]
    ELSE [st |-> "ok", val |-> PredeclaredType(typ.name), err |-> NoError]

\* the mutated expansion: a group gives one parameter whatever it names
GroupParametersOnce(f, t) ==
    IF Len(f.names) = 0 THEN <<Parameter("", t)>>
    ELSE <<Parameter(f.names[1], t)>>

\* parseFieldList lines 464-473: the parameters one group contributes
GroupParameters(f, t) ==
    IF Len(f.names) = 0 THEN <<Parameter("", t)>>
    ELSE [i \in 1..Len(f.names) |-> Parameter(f.names[i], t)]

RECURSIVE FieldLoop(_, _, _, _)
\* parseFieldList lines 459-473 for one field whose type translated to t
FieldStep(p, pkg, fields, ps, t) ==
    IF t.st # "ok" THEN [st |-> t.st, val |-> <<>>, err |-> t.err]
    ELSE FieldLoop(p, pkg, Tail(fields), ps \o GroupParameters(Head(fields), t.val))

\* parseFieldList lines 458-474
FieldLoop(p, pkg, fields, ps) ==
    IF fields = <<>> THEN [st |-> "ok", val |-> ps, err |-> NoError]
    ELSE FieldStep(p, pkg, fields, ps, parseType(p, pkg, Head(fields).typ))

parseFieldList(p, pkg, fields) == FieldLoop(p, pkg, fields, <<>>)

isVariadic(f) ==
    LET nargs == Len(f.params)
    IN  IF nargs = 0 THEN FALSE ELSE f.params[nargs].typ.k = "ellipsis"

\* the mutated split: the variadic group stays among the regular ones
RegParamsAll(f) == f.params

\* parseFunc lines 419-423: regParams
RegParams(f) ==
    IF isVariadic(f) THEN SubSeq(f.params, 1, Len(f.params) - 1) ELSE f.params

FuncFailure(st, err) ==
    [st |-> st, in |-> <<>>, variadic |-> NilParameter, out |-> <<>>, err |-> err]

Wrapped(kind, r) == IF r.st = "err" THEN Error(kind, r.err) ELSE r.err

\* parseFunc lines 424-441, given the three translated lists
FuncResult(f, vp, in, out) ==
    IF vp.st # "ok" THEN FuncFailure(vp.st, Wrapped("failed parsing variadic argument", vp))
    ELSE IF in.st # "ok" THEN FuncFailure(in.st, Wrapped("failed parsing arguments", in))
    ELSE IF out.st # "ok" THEN FuncFailure(out.st, Wrapped("failed parsing returns", out))
    ELSE [st |-> "ok", in |-> in.val,
          variadic |-> IF isVariadic(f) THEN vp.val[1] ELSE NilParameter,
          out |-> out.val, err |-> NoError]

\* parseFunc lines 420-424: the translation of varParams, if there are any
VarParams(p, pkg, f) ==
    IF isVariadic(f) THEN parseFieldList(p, pkg, SubSeq(f.params, Len(f.params), Len(f.params)))
    ELSE [st |-> "ok", val |-> <<>>, err |-> NoError]

parseFunc(p, pkg, f) ==
    FuncResult(f, VarParams(p, pkg, f), parseFieldList(p, pkg, RegParams(f)),
               parseFieldList(p, pkg, f.results))

(***************************************************************************)
(* The inputs sourceMode is run on.                                        *)
(***************************************************************************)
MaxFields == 2      \* entries in the method list of interface A
MaxDepth == 6       \* parseInterface activations the goroutine stack holds

EntryFields ==
    {FuncField("M1", PredeclaredExpr("int")),
     FuncField("M2", SelectorTypeExpr(X, "T")),
     IdentField("B"),
     SelectorField(X, "E"),
     SelectorField(Y, "E"),
     SelectorField(X, "K"),
     SelectorField(X, "N"),
     SelectorField(X, "P"),
     OtherField}

MethodLists == UNION {[1..n -> EntryFields] : n \in 1..MaxFields}

\* interface B of the entry file, declared before A; <<>> when not declared
BDecls ==
    {<<>>,
     <<InterfaceDecl("B", <<FuncField("M4", ExportedExpr("U"))>>)>>,
     <<InterfaceDecl("B", <<IdentField("A")>>)>>}

StructDecls == <<StructDecl("S"), FuncDecl("m", "S", TRUE)>>

ImportsXY == <<ImportSpec(NoAlias, PX), ImportSpec(NoAlias, PY)>>
\* p/x is on disk and declares x; q/x.v2 is not, and its last segment gives x
ImportsXX == <<ImportSpec(NoAlias, PX), ImportSpec(NoAlias, QX)>>
\* one path under two short names
ImportsXAlias == <<ImportSpec(NoAlias, PX), ImportSpec(Y, PX)>>
\* p/z declares package x
ImportsXZ == <<ImportSpec(NoAlias, PX), ImportSpec(NoAlias, PZ), ImportSpec(Y, PY)>>
ImportsDot == <<ImportSpec(DotAlias, PY), ImportSpec(BlankAlias, PX), ImportSpec(NoAlias, QX)>>

EntryImports == {<<>>, ImportsXY, ImportsXX, ImportsXAlias, ImportsXZ, ImportsDot}

AuxSpec(pkg, file) == [pkg |-> pkg, file |-> file]

AuxX ==
    AuxSpec(X, File(X, <<ImportSpec(NoAlias, PZ)>>,
                    <<InterfaceDecl("N", <<FuncField("Na", PredeclaredExpr("int"))>>),
                      InterfaceDecl("P", <<FuncField("Pa", ExportedExpr("T"))>>)>>))

AuxSelf ==
    AuxSpec(SelfPath, File(S, <<ImportSpec(NoAlias, PY), ImportSpec(Y, PX)>>,
                           <<InterfaceDecl("B", <<FuncField("Mb", PredeclaredExpr("int"))>>)>>))

\* registered under y; it imports nothing
AuxY ==
    AuxSpec(Y, File(Y, <<>>, <<InterfaceDecl("E", <<FuncField("Ea", PredeclaredExpr("int"))>>)>>))

AuxFlags == {<<>>, <<AuxX>>, <<AuxSelf, AuxX>>, <<AuxY>>}

KV(k, v) == [k |-> k, v |-> v]

FlagX == <<KV(X, PZ)>>
FlagY == <<KV(Y, PX), KV(DotAlias, PZ), KV(Y, PY)>>

ImportsFlags == {<<>>, FlagX, FlagY}

Setup(imp, aux, kvs) == [imp |-> imp, aux |-> aux, kvs |-> kvs]

\* every combination of entry imports, -aux_files and -imports
Setups == {Setup(imp, aux, kvs) : imp \in EntryImports, aux \in AuxFlags, kvs \in ImportsFlags}

\* the combinations that the longer method lists are resolved under
ResolveSetups ==
    {Setup(ImportsXY, <<>>, <<>>),
     Setup(ImportsXY, <<AuxSelf, AuxX>>, <<>>),
     Setup(ImportsXY, <<AuxX>>, FlagX),
     Setup(ImportsXX, <<>>, <<>>),
     Setup(ImportsXX, <<AuxX>>, <<>>),
     Setup(ImportsXAlias, <<>>, <<>>),
     Setup(ImportsXZ, <<AuxSelf, AuxX>>, FlagY),
     Setup(ImportsDot, <<>>, <<>>),
     Setup(<<>>, <<AuxSelf, AuxX>>, <<>>)}

Input(setup, b, a) ==
    [file |-> File(S, setup.imp, b \o <<InterfaceDecl("A", a)>> \o StructDecls),
     aux |-> setup.aux, imports |-> setup.kvs]

Inputs ==
    {Input(setup, b, a) : setup \in Setups, b \in BDecls, a \in [1..1 -> EntryFields]}
    \cup {Input(setup, b, a) : setup \in ResolveSetups, b \in BDecls, a \in MethodLists}

(***************************************************************************)
(* sourceMode as a state machine.                                          *)
(***************************************************************************)
Running == [st |-> "running", pkg |-> <<>>, err |-> NoError]

\* the parts of the state the other specifications use, at rest
ScanIdle == scanned = <<>> /\ runs = <<>>
NoCall == [active |-> FALSE, want |-> EmptyStr, id |-> EmptyStr, i |-> 0]
AllocIdle == seed = {} /\ taken = {} /\ call = NoCall /\ returned = <<>>
NoTrans == [op |-> "", arg |-> <<>>, res |-> <<>>]
TransIdle == sig = <<>> /\ trans = NoTrans
NoProducer == [pc |-> "none", items |-> <<>>, idx |-> 0]
NoConsumer == [pc |-> "idle", ni |-> NilInterface, is |-> <<>>, ss |-> <<>>, ret |-> ""]
ChanIdle ==
    /\ chFile = <<>>
    /\ prodI = NoProducer
    /\ prodS = NoProducer
    /\ cons = NoConsumer
    /\ sent = <<>>
    /\ received = <<>>
NoWalk == [pc |-> "idle", currentDir |-> EmptyStr, res |-> EmptyStr, err |-> ""]
LocIdle ==
    /\ env = [srcDir |-> EmptyStr, mods |-> EmptyMap, gopath |-> EmptyStr, mode |-> ""]
    /\ walk = NoWalk
NoTable == [built |-> FALSE, normal |-> EmptyMap, dot |-> <<>>]
ImpIdle == impFile = <<>> /\ impTable = NoTable
RestIdle == TransIdle /\ ChanIdle /\ LocIdle /\ ImpIdle

Init ==
    /\ input \in Inputs
    /\ pc = "imports"
    /\ parsers = <<NewParser>>
    /\ stack = <<>>
    /\ is = <<>>
    /\ ret = Running
    /\ parseLog = <<>>
    /\ ScanIdle
    /\ AllocIdle
    /\ RestIdle

\* sourceMode lines 74-88
HandleImports ==
    /\ pc = "imports"
    /\ parsers' = [parsers EXCEPT ![1].imports = HandleImportsFlag(input.imports, @)]
    /\ pc' = "auxfiles"
    /\ UNCHANGED <<input, stack, is, ret, parseLog, scanVars, allocVars, restVars>>

\* sourceMode lines 90-94
HandleAuxFiles ==
    /\ pc = "auxfiles"
    /\ parsers' =
         [parsers EXCEPT ![1] =
            LET p == parseAuxFiles(input.aux, @)
            IN  [p EXCEPT !.auxInterfaces = addAuxInterfacesFromFile(@, SelfPath, input.file)]]
    /\ pc' = "parseFile"
    /\ UNCHANGED <<input, stack, is, ret, parseLog, scanVars, allocVars, restVars>>

\* parseFile lines 197-213
LoadImports ==
    /\ pc = "parseFile"
    /\ parsers' =
         [parsers EXCEPT ![1].imports =
            MergeAuxImports(MergeImports(@, importsOfFile(input.file).normal),
                            parsers[1].auxFiles)]
    /\ pc' = "interfaces"
    /\ UNCHANGED <<input, stack, is, ret, parseLog, scanVars, allocVars, restVars>>

Frame(p, n, pkg, it) ==
    [p |-> p, name |-> n, pkg |-> pkg, it |-> it, i |-> 1, methods |-> <<>>]

Top == stack[Len(stack)]
CurField == Top.it[Top.i]
AtField(k) ==
    /\ pc = "interfaces"
    /\ stack # <<>>
    /\ Top.i <= Len(Top.it)
    /\ CurField.k = k

\* the mutated error return: the interfaces resolved so far are handed back
ErrResultPartial(file, ifs) == <<Package(file.name, SelfPath, ifs, <<>>, <<>>)>>

\* parseFile lines 218-220 and sourceMode lines 97-99: `return nil, err`
ErrResult(file, ifs) == <<>>

\* an error travels up through every activation to sourceMode's caller
Fail(e) ==
    /\ ret' = [st |-> "err", pkg |-> ErrResult(input.file, is), err |-> e]
    /\ pc' = "done"

\* duplicateImport.Path / Parser: log.Fatal ends the process
Fatal(e) ==
    /\ ret' = [st |-> "fatal", pkg |-> <<>>, err |-> e]
    /\ pc' = "done"

\* the recursion has used up the goroutine's stack: the runtime ends the process
Overflow ==
    /\ ret' = [st |-> "overflow", pkg |-> <<>>, err |-> Error("stack overflow", <<>>)]
    /\ pc' = "done"

\* a recursive call of parseInterface
Call(frame) ==
    IF Len(stack) >= MaxDepth
    THEN Overflow /\ UNCHANGED stack
    ELSE stack' = Append(stack, frame) /\ UNCHANGED <<pc, ret>>

\* parseFile line 216-222: the next interface of the entry file
NextInterface ==
    /\ pc = "interfaces"
    /\ stack = <<>>
    /\ LET nis == iterInterfaces(input.file.decls)
       IN  IF Len(is) < Len(nis)
           THEN /\ stack' = <<Frame(1, nis[Len(is) + 1].name, SelfPath, nis[Len(is) + 1].it)>>
                /\ pc' = pc
           ELSE /\ pc' = "structs"
                /\ stack' = stack
    /\ UNCHANGED <<input, parsers, is, ret, parseLog, scanVars, allocVars, restVars>>

\* parseInterface lines 328-349 for a method with one unnamed parameter
MethodOf(field, r) ==
    [st |-> r.st,
     val |-> Method(field.name, IF r.st = "ok" THEN r.in[1].typ ELSE PredeclaredType("")),
     err |-> r.err]

parseMethod(p, pkg, field) ==
    MethodOf(field, parseFunc(p, pkg, FuncType(<<Field(<<>>, field.typ)>>, <<>>)))

\* parseInterface lines 327-353
FieldFunc ==
    /\ AtField("func")
    /\ LET r == parseMethod(parsers[Top.p], Top.pkg, CurField)
       IN  CASE r.st = "ok" ->
                  /\ stack' = [stack EXCEPT ![Len(stack)].methods = Append(@, r.val),
                                            ![Len(stack)].i = @ + 1]
                  /\ UNCHANGED <<pc, ret>>
             [] r.st = "err" -> Fail(r.err) /\ UNCHANGED stack
             [] r.st = "fatal" -> Fatal(r.err) /\ UNCHANGED stack
    /\ UNCHANGED <<input, parsers, is, parseLog, scanVars, allocVars, restVars>>

\* parseInterface lines 354-365
FieldIdent ==
    /\ AtField("ident")
    /\ LET p == parsers[Top.p]
           a == Lookup(p.auxInterfaces, Top.pkg, CurField.name)
           ei == IF a.ok THEN a ELSE Lookup(p.importedInterfaces, Top.pkg, CurField.name)
       IN  IF ~ei.ok
           THEN Fail(Error("unknown embedded interface", CurField.name)) /\ UNCHANGED stack
           ELSE Call(Frame(Top.p, CurField.name, Top.pkg, ei.it))
    /\ UNCHANGED <<input, parsers, is, parseLog, scanVars, allocVars, restVars>>

\* the mutated store: the parsed package is not kept in the import table
CacheParserDropped(imports, fpkg, epkg, parser) == imports

\* parseInterface lines 394-397
CacheParser(imports, fpkg, epkg, parser) ==
    MapPut(imports, fpkg, importedPkg(epkg.path, parser))

\* parseInterface lines 369-406
FieldSelector ==
    /\ AtField("sel")
    /\ LET p == parsers[Top.p]
           fpkg == CurField.pkg
           sel == CurField.name
       IN  IF ~Has(p.imports, fpkg)
           THEN Fail(Error("unknown package", fpkg)) /\ UNCHANGED <<stack, parsers, parseLog>>
           ELSE
           LET epkg == p.imports[fpkg]
               a == Lookup(p.auxInterfaces, fpkg, sel)
           IN  IF a.ok
               THEN Call(Frame(Top.p, sel, fpkg, a.it)) /\ UNCHANGED <<parsers, parseLog>>
               ELSE IF epkg.t = "dup"
               THEN Fatal(Error("ambigous", epkg)) /\ UNCHANGED <<stack, parsers, parseLog>>
               ELSE IF epkg.parser = 0 /\ epkg.path \notin Disk
               THEN Fail(Error("could not parse package", epkg.path))
                    /\ UNCHANGED <<stack, parsers, parseLog>>
               ELSE
               LET fresh == epkg.parser = 0
                   id == IF fresh THEN Len(parsers) + 1 ELSE epkg.parser
                   heap == IF fresh
                           THEN Append([parsers EXCEPT ![Top.p].imports =
                                            CacheParser(@, fpkg, epkg, id)],
                                       parsePackage(epkg.path))
                           ELSE parsers
                   ei == Lookup(heap[id].importedInterfaces, epkg.path, sel)
               IN  /\ parsers' = heap
                   /\ parseLog' = IF fresh
                                  THEN Append(parseLog, [p |-> Top.p, fpkg |-> fpkg, path |-> epkg.path])
                                  ELSE parseLog
                   /\ IF ~ei.ok
                      THEN Fail(Error("unknown embedded interface", <<epkg.path, sel>>))
                           /\ UNCHANGED stack
                      ELSE Call(Frame(id, sel, epkg.path, ei.it))
    /\ UNCHANGED <<input, is, scanVars, allocVars, restVars>>

\* parseInterface lines 410-411
FieldOther ==
    /\ AtField("other")
    /\ Fail(Error("don't know how to mock method of type", <<>>))
    /\ UNCHANGED <<input, parsers, stack, is, parseLog, scanVars, allocVars, restVars>>

\* the mutated copy: the embedded methods are put in front
CopyMethodsInFront(methods, embedded) == embedded \o methods

\* parseInterface lines 368 and 409: intf.Methods = append(intf.Methods, eintf.Methods...)
CopyMethods(methods, embedded) == methods \o embedded

\* parseInterface line 414, and the caller's lines 362-368, 381-384, 402-409
Return ==
    /\ pc = "interfaces"
    /\ stack # <<>>
    /\ Top.i > Len(Top.it)
    /\ IF Len(stack) = 1
       THEN /\ is' = Append(is, Interface(Top.name, Top.methods))
            /\ stack' = <<>>
       ELSE /\ is' = is
            /\ stack' = [SubSeq(stack, 1, Len(stack) - 1) EXCEPT
                            ![Len(stack) - 1].methods = CopyMethods(@, Top.methods),
                            ![Len(stack) - 1].i = @ + 1]
    /\ UNCHANGED <<input, pc, parsers, ret, parseLog, scanVars, allocVars, restVars>>

\* parseFile lines 224-238 and sourceMode lines 100-103
ParseStructs ==
    /\ pc = "structs"
    /\ \E run \in iterStruct(input.file.decls), dots \in Orders(DotImportsFlag(input.imports)) :
          ret' = [st |-> "ok",
                  pkg |-> <<Package(input.file.name, SelfPath, is,
                                    [i \in DOMAIN run |-> parseStruct(run[i])],
                                    importsOfFile(input.file).dot \o dots)>>,
                  err |-> NoError]
    /\ pc' = "done"
    /\ UNCHANGED <<input, parsers, stack, is, parseLog, scanVars, allocVars, restVars>>

Next ==
    \/ HandleImports
    \/ HandleAuxFiles
    \/ LoadImports
    \/ NextInterface
    \/ FieldFunc
    \/ FieldIdent
    \/ FieldSelector
    \/ FieldOther
    \/ Return
    \/ ParseStructs

Spec == Init /\ [][Next]_vars

(***************************************************************************)
(* Method lists as equations over the syntax, to compare the machine with. *)
(***************************************************************************)
NoMethods == [ok |-> FALSE, methods |-> <<>>]

\* the interface an embed field names, with the parser and package context
\* its own method list is resolved in; ok = FALSE when it does not resolve
EmbedTarget(p, pkg, f) ==
    IF f.k = "ident"
    THEN LET a == Lookup(p.auxInterfaces, pkg, f.name)
             ei == IF a.ok THEN a ELSE Lookup(p.importedInterfaces, pkg, f.name)
         IN  [ok |-> ei.ok, p |-> p, pkg |-> pkg, it |-> ei.it]
    ELSE IF ~Has(p.imports, f.pkg)
    THEN [ok |-> FALSE, p |-> p, pkg |-> pkg, it |-> <<>>]
    ELSE LET a == Lookup(p.auxInterfaces, f.pkg, f.name)
             epkg == p.imports[f.pkg]
         IN  IF a.ok THEN [ok |-> TRUE, p |-> p, pkg |-> f.pkg, it |-> a.it]
             ELSE IF epkg.t = "dup" \/ epkg.path \notin Disk
             THEN [ok |-> FALSE, p |-> p, pkg |-> pkg, it |-> <<>>]
             ELSE LET q == parsePackage(epkg.path)
                      ei == Lookup(q.importedInterfaces, epkg.path, f.name)
                  IN  [ok |-> ei.ok, p |-> q, pkg |-> epkg.path, it |-> ei.it]

RECURSIVE InSourceOrder(_, _, _, _)
\* entry by entry, in declaration order: one Method for a signature, the
\* embedded interface's list for an embed
InSourceOrder(p, pkg, it, fuel) ==
    IF it = <<>> THEN [ok |-> TRUE, methods |-> <<>>]
    ELSE LET f == Head(it)
             first ==
                IF f.k = "func"
                THEN LET r == parseMethod(p, pkg, f)
                     IN  [ok |-> r.st = "ok", methods |-> <<r.val>>]
                ELSE IF f.k = "other" \/ fuel = 0 THEN NoMethods
                ELSE LET e == EmbedTarget(p, pkg, f)
                     IN  IF e.ok THEN InSourceOrder(e.p, e.pkg, e.it, fuel - 1) ELSE NoMethods
             rest == InSourceOrder(p, pkg, Tail(it), fuel)
         IN  [ok |-> first.ok /\ rest.ok, methods |-> first.methods \o rest.methods]

RECURSIVE OwnFirst(_, _, _, _)
RECURSIVE EmbedsOf(_, _, _, _)
\* the embedded interfaces' lists, in declaration order
EmbedsOf(p, pkg, it, fuel) ==
    IF it = <<>> THEN [ok |-> TRUE, methods |-> <<>>]
    ELSE LET f == Head(it)
             first ==
                IF f.k = "func" THEN [ok |-> TRUE, methods |-> <<>>]
                ELSE IF f.k = "other" \/ fuel = 0 THEN NoMethods
                ELSE LET e == EmbedTarget(p, pkg, f)
                     IN  IF e.ok THEN OwnFirst(e.p, e.pkg, e.it, fuel - 1) ELSE NoMethods
             rest == EmbedsOf(p, pkg, Tail(it), fuel)
         IN  [ok |-> first.ok /\ rest.ok, methods |-> first.methods \o rest.methods]

\* own methods first, then every embedded interface's list
OwnFirst(p, pkg, it, fuel) ==
    LET own == InSourceOrder(p, pkg, SelectSeq(it, LAMBDA f : f.k = "func"), fuel)
        emb == EmbedsOf(p, pkg, it, fuel)
    IN  [ok |-> own.ok /\ emb.ok, methods |-> own.methods \o emb.methods]

EntryInterfaces == iterInterfaces(input.file.decls)

Returned == ret.st = "ok"
ReturnedInterfaces == ret.pkg[1].interfaces

\* C1 (as amended): the resolved method list of every interface of the entry
\* file is the concatenation, over its method-list entries in declaration
\* order, of the entry's own Method or of the embedded interface's resolved
\* list, recursively and without de-duplication.
C1_MethodsInSourceOrder ==
    Returned =>
        /\ Len(ReturnedInterfaces) = Len(EntryInterfaces)
        /\ \A k \in DOMAIN EntryInterfaces :
              LET want == InSourceOrder(parsers[1], SelfPath, EntryInterfaces[k].it, MaxDepth)
              IN  /\ want.ok
                  /\ ReturnedInterfaces[k].name = EntryInterfaces[k].name
                  /\ ReturnedInterfaces[k].methods = want.methods

\* C1 as stated: own methods first, then Methods(E1), ..., Methods(En), for
\* every position of the embeds.
C1_OwnMethodsFirst ==
    Returned =>
        \A k \in DOMAIN EntryInterfaces :
            ReturnedInterfaces[k].methods =
                OwnFirst(parsers[1], SelfPath, EntryInterfaces[k].it, MaxDepth).methods

\* an interface was resolved whose embed, with methods of its own, is written
\* before an own method
C1_Witness ==
    /\ Returned
    /\ \E k \in DOMAIN EntryInterfaces :
          LET it == EntryInterfaces[k].it
          IN  /\ Len(it) >= 2
              /\ it[1].k \in {"ident", "sel"}
              /\ it[2].k = "func"
              /\ Len(ReturnedInterfaces[k].methods) >= 2

(***************************************************************************)
(* The import table against the sources it is built from.                  *)
(***************************************************************************)
Table == parsers[1].imports
TableBuilt == pc \in {"interfaces", "structs", "done"}

IsDup(p, n) == Has(p.imports, n) /\ p.imports[n].t = "dup"

\* the indices of the import specs of a file that are filed under name n
SpecsUnder(file, n) ==
    {i \in DOMAIN file.imports :
        /\ file.imports[i].name # BlankAlias
        /\ PkgNameOf(file.imports[i], createPackageMap(UnnamedPaths(file.imports))) = n}

NamesOfFile(file) ==
    {PkgNameOf(file.imports[i], createPackageMap(UnnamedPaths(file.imports))) :
        i \in {j \in DOMAIN file.imports : file.imports[j].name # BlankAlias}} \ {DotAlias}

FlagNames == {input.imports[i].k : i \in DOMAIN input.imports} \ {DotAlias}
\* the path the last -imports pair for n gives
FlagPath(n) ==
    LET at == {i \in DOMAIN input.imports : input.imports[i].k = n}
    IN  input.imports[CHOOSE i \in at : \A j \in at : j <= i].v

AuxFilesOf == [i \in DOMAIN input.aux |-> input.aux[i].file]
AuxNames == UNION {NamesOfFile(AuxFilesOf[i]) : i \in DOMAIN AuxFilesOf}
AllNames == FlagNames \cup NamesOfFile(input.file) \cup AuxNames

\* the file whose imports bind n: the entry file, else the first auxiliary
\* file that imports under n
BindingFile(n) ==
    IF n \in NamesOfFile(input.file) THEN input.file
    ELSE LET at == {i \in DOMAIN AuxFilesOf : n \in NamesOfFile(AuxFilesOf[i])}
         IN  AuxFilesOf[CHOOSE i \in at : \A j \in at : i <= j]

\* every (source, path) that maps to short name n
PathsUnder(n) ==
    {input.imports[i].v : i \in {j \in DOMAIN input.imports : input.imports[j].k = n}}
    \cup {input.file.imports[i].path : i \in SpecsUnder(input.file, n)}
    \cup UNION {{AuxFilesOf[a].imports[i].path : i \in SpecsUnder(AuxFilesOf[a], n)} :
                    a \in DOMAIN AuxFilesOf}

\* C3 (as amended): after the import table is built it binds every short name
\* some source supplies; the binding is a DuplicateImport exactly when the
\* name is not an -imports override and the file that binds it (the entry
\* file, else the first auxiliary file importing under it) holds two or more
\* imports under that name.  Paths from later sources are dropped.
C3_DuplicateWithinBindingFile ==
    TableBuilt =>
        /\ DOMAIN Table = AllNames
        /\ \A n \in AllNames :
              (Table[n].t = "dup") <=>
                  (n \notin FlagNames /\ Cardinality(SpecsUnder(BindingFile(n), n)) >= 2)
        /\ \A n \in AllNames :
              Table[n].t = "dup" =>
                  /\ Table[n].name = n
                  /\ {Table[n].duplicates[i] : i \in DOMAIN Table[n].duplicates}
                        = {BindingFile(n).imports[i].path : i \in SpecsUnder(BindingFile(n), n)}

\* C3 as stated: two different paths under one short name, from any sources,
\* leave a DuplicateImport in the table.
C3_DuplicateAcrossSources ==
    TableBuilt =>
        \A n \in AllNames :
            Cardinality(PathsUnder(n)) >= 2 => Table[n].t = "dup"

\* a table holding a DuplicateImport from one file, and a name that two
\* sources bind to different paths
C3_Witness ==
    /\ TableBuilt
    /\ \E n \in AllNames : Table[n].t = "dup"
    /\ \E n \in AllNames : Table[n].t = "pkg" /\ Cardinality(PathsUnder(n)) >= 2

(***************************************************************************)
(* C2: the deferred ambiguity error.                                       *)
(***************************************************************************)
\* field f, met by parser p in package context pkg, needs the path or the
\* parser of a DuplicateImport
DerefsDup(p, pkg, f) ==
    \/ f.k = "sel" /\ IsDup(p, f.pkg) /\ ~Lookup(p.auxInterfaces, f.pkg, f.name).ok
    \/ f.k = "func" /\ f.typ.k = "sel" /\ IsDup(p, f.typ.pkg)
    \/ f.k = "func" /\ f.typ.k = "ident" /\ f.typ.exported /\ IsDup(p, pkg)

\* field f names a DuplicateImport as the qualifier of an embed or of a type
NamesDup(p, f) ==
    \/ f.k = "sel" /\ IsDup(p, f.pkg)
    \/ f.k = "func" /\ f.typ.k = "sel" /\ IsDup(p, f.typ.pkg)

\* the fields parseInterface has got past: those before the current one in
\* every activation, the embed in progress in every activation but the top
\* one, and every field of the entry interfaces already resolved
Passed(d) ==
    LET fr == stack[d]
        upto == IF d < Len(stack) THEN fr.i ELSE fr.i - 1
    IN  {fr.it[j] : j \in 1..upto}

Ambiguous == ret.st = "fatal"

\* C2 (as amended): the process fails on an ambiguous short name only at a
\* field that needs the DuplicateImport's path or parser, and the error names
\* the short name and its two or more paths; no such field is ever got past.
\* A field needs them when it qualifies a type with the name, when it embeds
\* pkg.Name and no auxiliary file registered under pkg declares Name, or when
\* it uses an unqualified exported type in an interface taken from an
\* auxiliary file registered under the name.  An embed pkg.Name that an
\* auxiliary file registered under pkg declares is resolved from that file.
C2_AmbiguityOnlyWhenDereferenced ==
    /\ Ambiguous =>
          /\ stack # <<>>
          /\ Top.i <= Len(Top.it)
          /\ DerefsDup(parsers[Top.p], Top.pkg, CurField)
          /\ ret.err.kind = "ambigous"
          /\ ret.err.arg.t = "dup"
          /\ Len(ret.err.arg.duplicates) >= 2
          /\ ret.err.arg \in {parsers[Top.p].imports[n] : n \in DOMAIN parsers[Top.p].imports}
    /\ \A d \in DOMAIN stack : \A f \in Passed(d) :
          ~DerefsDup(parsers[stack[d].p], stack[d].pkg, f)
    /\ \A k \in DOMAIN is : \A j \in DOMAIN EntryInterfaces[k].it :
          ~DerefsDup(parsers[1], SelfPath, EntryInterfaces[k].it[j])

\* C2 as stated: an interface that names the ambiguous short name as the
\* qualifier of an embed or of a type is never resolved, whatever the
\* auxiliary files declare.
C2_AmbiguityWheneverNamed ==
    /\ \A d \in DOMAIN stack : \A f \in Passed(d) : ~NamesDup(parsers[stack[d].p], f)
    /\ \A k \in DOMAIN is : \A j \in DOMAIN EntryInterfaces[k].it :
          ~NamesDup(parsers[1], EntryInterfaces[k].it[j])

\* the run ended on the ambiguity at an embed, in a file whose other
\* interface, not naming the short name, had been resolved
\* and whose embed of an interface that an auxiliary file declares under the
\* ambiguous name had been resolved just before
C2_Witness ==
    /\ Ambiguous
    /\ CurField.k = "sel"
    /\ Len(is) >= 1
    /\ Len(stack) = 1
    /\ Top.i = 2
    /\ Top.it[1].k = "sel"
    /\ IsDup(parsers[1], Top.it[1].pkg)
    /\ Len(Top.methods) >= 1

(***************************************************************************)
(* C4: how often a package is located and scanned.                         *)
(***************************************************************************)
\* C4 (as amended): one resolver scans a package at most once for each of its
\* local short names: after the first embed through a short name the parsed
\* package is kept in that import-table entry.
C4_OncePerResolverAndName ==
    \A i, j \in DOMAIN parseLog :
        i # j => ~(parseLog[i].p = parseLog[j].p /\ parseLog[i].fpkg = parseLog[j].fpkg)

\* C4 as stated: no package path is scanned twice in one run.
C4_OncePerPath ==
    \A i, j \in DOMAIN parseLog : i # j => parseLog[i].path # parseLog[j].path

\* an interface embedding twice through one short name was resolved with one
\* scan of that package by the entry resolver
C4_Witness ==
    /\ Returned
    /\ \E k \in DOMAIN EntryInterfaces :
          LET it == EntryInterfaces[k].it
          IN  /\ Len(it) = 2
              /\ it[1].k = "sel" /\ it[2].k = "sel"
              /\ it[1].pkg = it[2].pkg
              /\ ~Lookup(parsers[1].auxInterfaces, it[1].pkg, it[1].name).ok
              /\ ~Lookup(parsers[1].auxInterfaces, it[2].pkg, it[2].name).ok
              /\ Cardinality({i \in DOMAIN parseLog :
                                parseLog[i].p = 1 /\ parseLog[i].fpkg = it[1].pkg}) = 1

(***************************************************************************)
(* C7: cyclic embedding.                                                   *)
(***************************************************************************)
\* C7: an interface is never entered again while its own resolution is in
\* progress (the run fails fast on a cyclic chain), and so the recursion
\* never exhausts the stack.
C7_CyclicEmbeddingFailsFast ==
    /\ \A i, j \in DOMAIN stack :
          i # j => ~(stack[i].pkg = stack[j].pkg /\ stack[i].name = stack[j].name)
    /\ ret.st # "overflow"

(***************************************************************************)
(* C8: what the import table keeps.                                        *)
(***************************************************************************)
SameBinding(a, b) == a.t = b.t /\ a.path = b.path /\ a.name = b.name /\ a.duplicates = b.duplicates

C8_FlagsKept ==
    pc # "imports" =>
        \A n \in FlagNames :
            Has(Table, n) /\ Table[n].t = "pkg" /\ Table[n].path = FlagPath(n)

C8_EntryBeforeAux ==
    TableBuilt =>
        \A n \in NamesOfFile(input.file) \ FlagNames :
            SameBinding(Table[n], importsOfFile(input.file).normal[n])

C8_Stable ==
    pc # "imports" =>
        \A n \in DOMAIN Table :
            Has(parsers'[1].imports, n) /\ SameBinding(parsers'[1].imports[n], Table[n])

MaxDecls == 3       \* declarations in the scanned file
MaxRuns == 2        \* fresh runs over the same file

ScanDecls ==
    {StructDecl("S"), StructDecl("T"),
     FuncDecl("m1", "S", TRUE), FuncDecl("m2", "T", FALSE), FuncDecl("f", "", FALSE),
     InterfaceDecl("I", <<FuncField("M1", PredeclaredExpr("int"))>>)}

ScanFiles ==
    UNION {{d \in [1..n -> ScanDecls] : \A i, j \in 1..n : i # j => d[i] # d[j]} :
                n \in 0..MaxDecls}

ScanFlags == {<<>>, <<KV(DotAlias, PZ), KV(DotAlias, PY)>>}

ResolveIdle ==
    /\ input = [file |-> File(S, <<>>, <<>>), aux |-> <<>>, imports |-> <<>>]
    /\ pc = "idle"
    /\ parsers = <<>>
    /\ stack = <<>>
    /\ is = <<>>
    /\ ret = Running
    /\ parseLog = <<>>

InitScan ==
    /\ scanned \in {[file |-> File(S, <<>>, d), imports |-> kvs] : d \in ScanFiles, kvs \in ScanFlags}
    /\ runs = <<>>
    /\ ResolveIdle
    /\ AllocIdle
    /\ RestIdle

\* sourceMode lines 64-94 and parseFile lines 197-213: the fileParser of a
\* run without auxiliary files
FreshParser(file, kvs) ==
    LET p == [NewParser EXCEPT !.imports = HandleImportsFlag(kvs, @),
                               !.auxInterfaces = addAuxInterfacesFromFile(@, SelfPath, file)]
    IN  [p EXCEPT !.imports = MergeImports(@, importsOfFile(file).normal)]

\* parseFile lines 215-222, for interfaces that resolve
ParseInterfaces(p, file) ==
    LET nis == iterInterfaces(file.decls)
    IN  [k \in DOMAIN nis |->
            Interface(nis[k].name, InSourceOrder(p, SelfPath, nis[k].it, MaxDepth).methods)]

\* one whole sourceMode call on a fresh fileParser
SourceModeRun ==
    /\ Len(runs) < MaxRuns
    /\ \E yielded \in iterStruct(scanned.file.decls),
          dots \in Orders(DotImportsFlag(scanned.imports)) :
          runs' = Append(runs,
                    [yielded |-> yielded,
                     pkg |-> Package(scanned.file.name, SelfPath,
                                ParseInterfaces(FreshParser(scanned.file, scanned.imports),
                                                scanned.file),
                                [i \in DOMAIN yielded |-> parseStruct(yielded[i])],
                                importsOfFile(scanned.file).dot \o dots)])
    /\ UNCHANGED <<scanned, resolveVars, allocVars, restVars>>

NextScan == SourceModeRun

SpecScan == InitScan /\ [][NextScan]_vars

RECURSIVE MethodsOf(_, _)
\* the methods of the file whose receiver names struct n, in source order
MethodsOf(decls, n) ==
    IF decls = <<>> THEN <<>>
    ELSE IF Head(decls).k = "func" /\ Head(decls).recv = n
    THEN <<Head(decls).name>> \o MethodsOf(Tail(decls), n)
    ELSE MethodsOf(Tail(decls), n)

RECURSIVE StructsInOrder(_, _)
StructsInOrder(rest, decls) ==
    IF rest = <<>> THEN <<>>
    ELSE IF Head(rest).k = "struct"
    THEN <<namedStruct(Head(rest).name, MethodsOf(decls, Head(rest).name))>>
            \o StructsInOrder(Tail(rest), decls)
    ELSE StructsInOrder(Tail(rest), decls)

\* C5: two fresh runs over the same file and flags return the same Package,
\* list orders and lengths included.
C5_FreshRunsAgree ==
    \A a, b \in DOMAIN runs : runs[a].pkg = runs[b].pkg

\* C6: the struct sequence holds every struct declaration of the file once,
\* in source order, each with all the methods whose receiver names it.
C6_EachStructOnceWithItsMethods ==
    \A a \in DOMAIN runs :
        runs[a].yielded = StructsInOrder(scanned.file.decls, scanned.file.decls)

(***************************************************************************)
(* identifierAllocator                                                     *)
(***************************************************************************)
MaxCalls == 3       \* allocateIdentifier calls on one allocator

Underscore == "_"
Digits == <<"0", "1", "2", "3", "4", "5", "6", "7", "8", "9">>

RECURSIVE Itoa(_)
\* strconv.Itoa for i >= 0
Itoa(i) ==
    IF i < 10 THEN <<Digits[i + 1]>>
    ELSE Itoa(i \div 10) \o <<Digits[(i % 10) + 1]>>

Foo == <<"Foo">>
Bar == <<"Bar">>
Foo2 == <<"Foo", Underscore, "2">>
Foo3 == <<"Foo", Underscore, "3">>
Foo22 == <<"Foo", Underscore, "2", Underscore, "2">>

Wanted == {Foo, Bar, Foo2}
SeedLists == SUBSET {Foo, Foo2, Foo3, Foo22, Bar}

\* newIdentifierAllocator
newIdentifierAllocator(names) == names

InitAlloc ==
    /\ seed \in SeedLists
    /\ taken = newIdentifierAllocator(seed)
    /\ call = NoCall
    /\ returned = <<>>
    /\ ResolveIdle
    /\ ScanIdle
    /\ RestIdle

\* the mutated reservation: the name is handed out but not recorded
ReserveNothing(o, id) == o

\* allocateIdentifier line 19: o[id] = struct{}{}
Reserve(o, id) == o \cup {id}

\* the mutated suffix: the counter is read one step late
NextIdSkipping(want, i) == want \o <<Underscore>> \o Itoa(i + 1)

\* allocateIdentifier line 22: want + "_" + strconv.Itoa(i)
NextId(want, i) == want \o <<Underscore>> \o Itoa(i)

\* allocateIdentifier lines 15-17: id := want; i := 2
Allocate ==
    /\ ~call.active
    /\ Len(returned) < MaxCalls
    /\ \E want \in Wanted :
          call' = [active |-> TRUE, want |-> want, id |-> want, i |-> 2]
    /\ UNCHANGED <<seed, taken, returned, resolveVars, scanVars, restVars>>

\* lines 18 and 22: id is taken; try want_i and step i
Probe ==
    /\ call.active
    /\ call.id \in taken
    /\ call' = [call EXCEPT !.id = NextId(call.want, call.i),
                            !.i = @ + 1]
    /\ UNCHANGED <<seed, taken, returned, resolveVars, scanVars, restVars>>

\* lines 18-20: id is free; reserve and return it
ReturnId ==
    /\ call.active
    /\ call.id \notin taken
    /\ taken' = Reserve(taken, call.id)
    /\ returned' = Append(returned, [want |-> call.want, id |-> call.id])
    /\ call' = NoCall
    /\ UNCHANGED <<seed, resolveVars, scanVars, restVars>>

NextAlloc == Allocate \/ Probe \/ ReturnId

SpecAlloc == InitAlloc /\ [][NextAlloc]_vars

\* a call that has started keeps running: nothing else stops the loop
SpecAllocFair == SpecAlloc /\ WF_vars(Probe) /\ WF_vars(ReturnId)

C10_Fresh ==
    /\ \A k \in DOMAIN returned : returned[k].id \notin seed
    /\ \A k, l \in DOMAIN returned : k # l => returned[k].id # returned[l].id

\* C10: every name allocateIdentifier returns is absent from the seed list and
\* differs from every name an earlier call returned, and every call returns.
C10_FreshNamesAndEveryCallReturns ==
    /\ []C10_Fresh
    /\ call.active ~> ~call.active

\* three calls returned, one of them after probing suffixes past a name that
\* an earlier call had been given
C10_Witness ==
    /\ Len(returned) = MaxCalls
    /\ \E k, l \in DOMAIN returned :
          /\ k < l
          /\ returned[k].want = returned[l].want
          /\ Len(returned[l].id) > Len(returned[l].want)

\* want_k as the claim writes it
Suffixed(want, k) == want \o <<Underscore>> \o Itoa(k)

\* the name the contract prescribes for want on the set o
Prescribed(o, want) ==
    IF want \notin o THEN want
    ELSE LET ks == {k \in 2..(Cardinality(o) + 2) : Suffixed(want, k) \notin o}
             k  == CHOOSE k \in ks : \A j \in ks : k <= j
         IN  Suffixed(want, k)

C11_Step ==
    /\ Len(returned') = Len(returned) + 1 =>
          LET r == returned'[Len(returned')]
          IN  /\ r.id = Prescribed(taken, r.want)
              /\ taken' = taken \cup {r.id}
              /\ (seed = {Foo} /\ r.want = Foo /\ Len(returned) = 0) => r.id = Foo2
              /\ (seed = {Foo} /\ r.want = Foo /\ returned = <<[want |-> Foo, id |-> Foo2]>>)
                     => r.id = Foo3
    /\ Len(returned') = Len(returned) => taken' = taken

\* C11: a call returns want when want is free and otherwise want_k for the
\* least k >= 2 with want_k free; it adds the returned name to the taken set
\* and nothing else; seeded with {Foo}, two calls for Foo give Foo_2 and Foo_3.
C11_ReturnsLeastFreeSuffix == [][C11_Step]_vars

\* seeded with Foo, two calls for Foo have returned Foo_2 and Foo_3
C11_Witness ==
    /\ seed = {Foo}
    /\ Len(returned) >= 2
    /\ returned[1] = [want |-> Foo, id |-> Foo2]
    /\ returned[2] = [want |-> Foo, id |-> Foo3]

\* every declaration of the auxiliary files registered under pkg
AuxDeclsUnder(pkg) ==
    UNION {{input.aux[i].file.decls[j] : j \in DOMAIN input.aux[i].file.decls} :
              i \in {i \in DOMAIN input.aux : input.aux[i].pkg = pkg}}

\* the interfaces that the auxiliary files registered under pkg declare as
\* name; only the entry fileParser has auxiliary files
AuxDeclared(pidx, pkg, name) ==
    IF pidx # 1 THEN {}
    ELSE {d.it : d \in {d \in AuxDeclsUnder(pkg) : d.k = "iface" /\ d.name = name}}

DeclaredOnDisk(path, name) ==
    \E j \in DOMAIN PackageOnDisk(path).decls :
        PackageOnDisk(path).decls[j].k = "iface" /\ PackageOnDisk(path).decls[j].name = name

C18_Step ==
    AtField("sel") =>
        LET p      == parsers[Top.p]
            f      == CurField
            absent == f.pkg \notin DOMAIN p.imports
            aux    == AuxDeclared(Top.p, f.pkg, f.name)
        IN  /\ absent =>
                  /\ ret'.st = "err" /\ ret'.err = Error("unknown package", f.pkg)
                  /\ parseLog' = parseLog /\ parsers' = parsers
            /\ (~absent /\ aux # {}) =>
                  /\ parseLog' = parseLog /\ parsers' = parsers
                  /\ \/ ret'.st = "overflow"
                     \/ /\ ret' = ret
                        /\ \E it \in aux : stack' = Append(stack, Frame(Top.p, f.name, f.pkg, it))
            /\ parseLog' # parseLog =>
                  /\ ~absent /\ aux = {}
                  /\ p.imports[f.pkg].t = "pkg" /\ p.imports[f.pkg].parser = 0
                  /\ parseLog' = Append(parseLog, [p |-> Top.p, fpkg |-> f.pkg,
                                                   path |-> p.imports[f.pkg].path])
                  /\ Len(parsers') = Len(parsers) + 1
                  /\ parsers'[Top.p].imports[f.pkg]
                        = importedPkg(p.imports[f.pkg].path, Len(parsers'))
            /\ (~absent /\ aux = {} /\ p.imports[f.pkg].t = "pkg"
                    /\ p.imports[f.pkg].path \in Disk) =>
                  /\ p.imports[f.pkg].parser = 0 => parseLog' # parseLog
                  /\ ~DeclaredOnDisk(p.imports[f.pkg].path, f.name) =>
                        /\ ret'.st = "err"
                        /\ ret'.err = Error("unknown embedded interface",
                                            <<p.imports[f.pkg].path, f.name>>)

\* C18: an embed pkg.Name with pkg absent from the import table fails with
\* "unknown package", also when an auxiliary file is registered under pkg;
\* with pkg present and Name declared by an auxiliary file registered under
\* pkg it is resolved from that file and no package is located or parsed for
\* it; only otherwise is the package located, parsed and cached, and Name
\* missing there gives "unknown embedded interface".
C18_AuxBeforeExternalPackage == [][C18_Step]_vars

\* the run failed with "unknown package" on y.E although an auxiliary file
\* registered under y declares E
C18_Witness ==
    /\ ret.st = "err"
    /\ ret.err = Error("unknown package", Y)
    /\ stack # <<>>
    /\ CurField = SelectorField(Y, "E")
    /\ AuxDeclared(Top.p, Y, "E") # {}

(***************************************************************************)
(* The translators parseFunc, parseFieldList and parseType, applied to     *)
(* function types drawn from a bounded set.                                *)
(***************************************************************************)
MaxGroups == 2      \* parameter groups of a function type
MaxNames == 2       \* names of one group

NameList == <<"a", "b", "c", "d">>
IntExpr == PredeclaredExpr("int")

TransTypes ==
    {IntExpr,
     ArrayTypeExpr(NilLen, IntExpr),
     ArrayTypeExpr(BasicLit(<<"3">>), IntExpr),
     ArrayTypeExpr(BasicLit(<<"0">>), ArrayTypeExpr(BasicLit(<<"1", "2">>), IntExpr)),
     ArrayTypeExpr(BasicLit(<<"0", "x", "1", "0">>), IntExpr),
     ArrayTypeExpr(IdentLen("N"), IntExpr),
     EllipsisExpr(IntExpr),
     SelectorTypeExpr(Y, "T")}

Groups == {Field(SubSeq(NameList, 1, n), t) : n \in 0..MaxNames, t \in TransTypes}
GroupLists == UNION {[1..n -> Groups] : n \in 0..MaxGroups}
ResultLists == {<<>>, <<Field(<<>>, IntExpr)>>}
FuncTypes == {FuncType(ps, rs) : ps \in GroupLists, rs \in ResultLists}

\* the fileParser the translators run on: it imports p/x as x and not y
TransParser == [NewParser EXCEPT !.imports = MapPut(EmptyMap, X, importedPkg(PX, 0))]

OthersIdleForTrans == ResolveIdle /\ ScanIdle /\ AllocIdle /\ ChanIdle /\ LocIdle /\ ImpIdle

InitTrans ==
    /\ sig \in FuncTypes
    /\ trans = NoTrans
    /\ OthersIdleForTrans

ApplyParseFunc ==
    /\ trans = NoTrans
    /\ trans' = [op |-> "parseFunc", arg |-> sig, res |-> parseFunc(TransParser, SelfPath, sig)]
    /\ UNCHANGED <<sig, resolveVars, scanVars, allocVars, chanVars, locVars, impVars>>

ApplyParseFieldList ==
    /\ trans = NoTrans
    /\ trans' = [op |-> "parseFieldList", arg |-> sig.params,
                 res |-> parseFieldList(TransParser, SelfPath, sig.params)]
    /\ UNCHANGED <<sig, resolveVars, scanVars, allocVars, chanVars, locVars, impVars>>

ApplyParseType ==
    /\ trans = NoTrans
    /\ \E g \in DOMAIN sig.params :
          trans' = [op |-> "parseType", arg |-> sig.params[g].typ,
                    res |-> parseType(TransParser, SelfPath, sig.params[g].typ)]
    /\ UNCHANGED <<sig, resolveVars, scanVars, allocVars, chanVars, locVars, impVars>>

NextTrans == ApplyParseFunc \/ ApplyParseFieldList \/ ApplyParseType

SpecTrans == InitTrans /\ [][NextTrans]_vars

\* what the contract prescribes for a list of groups
Width(g) == IF Len(g.names) = 0 THEN 1 ELSE Len(g.names)

RECURSIVE Offset(_, _)
\* the number of Parameters of the groups before the k-th
Offset(groups, k) == IF k <= 1 THEN 0 ELSE Offset(groups, k - 1) + Width(groups[k - 1])

GroupAt(groups, j) ==
    CHOOSE k \in DOMAIN groups : Offset(groups, k) < j /\ j <= Offset(groups, k) + Width(groups[k])

TypeOf(typ) == parseType(TransParser, SelfPath, typ).val

Prescribed13(groups) ==
    [j \in 1..Offset(groups, Len(groups) + 1) |->
        LET k == GroupAt(groups, j)
            g == groups[k]
        IN  Parameter(IF Len(g.names) = 0 THEN "" ELSE g.names[j - Offset(groups, k)],
                      TypeOf(g.typ))]

\* C12: when the last group's type is a variadic marker the input list is the
\* translation of the groups before it and the variadic parameter is the
\* first parameter of the last group, which is no part of the input list;
\* otherwise there is no variadic parameter and every group is an input.
C12_VariadicSplitFromInputs ==
    (trans.op = "parseFunc" /\ trans.res.st = "ok") =>
        LET f == trans.arg
            r == trans.res
            n == Len(f.params)
        IN  IF n > 0 /\ f.params[n].typ.k = "ellipsis"
            THEN /\ r.in = Prescribed13(SubSeq(f.params, 1, n - 1))
                 /\ Len(r.in) = Offset(f.params, n)
                 /\ r.variadic = Prescribed13(SubSeq(f.params, n, n))[1]
            ELSE /\ r.variadic = NilParameter
                 /\ r.in = Prescribed13(f.params)

\* a function type `(a T, a, b ...int)` translated: one input, the variadic a
C12_Witness ==
    /\ trans.op = "parseFunc" /\ trans.res.st = "ok"
    /\ Len(trans.arg.params) = 2
    /\ trans.arg.params[2].typ.k = "ellipsis"
    /\ Len(trans.arg.params[2].names) = 2
    /\ trans.arg.params[1].names = <<"a">>
    /\ Len(trans.res.in) = 1
    /\ ~trans.res.variadic.nil

\* C13: the list translator yields one Parameter per name of each group, or
\* one unnamed Parameter for a group without names, in source order and with
\* the group's type; their number is the sum over the groups of
\* max(1, names); `a, b T` yields (a:T, b:T).
C13_OneParameterPerName ==
    (trans.op = "parseFieldList" /\ trans.res.st = "ok") =>
        /\ trans.res.val = Prescribed13(trans.arg)
        /\ Len(trans.res.val) = Offset(trans.arg, Len(trans.arg) + 1)
        /\ \A k \in DOMAIN trans.arg :
              trans.arg[k].names = <<"a", "b">> =>
                  /\ trans.res.val[Offset(trans.arg, k) + 1].name = "a"
                  /\ trans.res.val[Offset(trans.arg, k) + 2].name = "b"
                  /\ trans.res.val[Offset(trans.arg, k) + 1].typ
                        = trans.res.val[Offset(trans.arg, k) + 2].typ

\* an unnamed group followed by `a, b [3]int` translated to three Parameters
C13_Witness ==
    /\ trans.op = "parseFieldList" /\ trans.res.st = "ok"
    /\ Len(trans.arg) = 2
    /\ trans.arg[1].names = <<>>
    /\ trans.arg[2].names = <<"a", "b">>
    /\ trans.arg[2].typ.k = "array"
    /\ Len(trans.res.val) = 3

\* a length the contract counts as a non-negative integer literal
IsDecimalLiteral(len) ==
    /\ len.k = "lit"
    /\ len.value # <<>>
    /\ \A i \in DOMAIN len.value : DigitValue(len.value[i]) >= 0

\* C14: an ArrayType has length -1 exactly for a type without a length
\* expression and otherwise the value of the integer literal, which is >= 0;
\* a length expression that is no such literal gives "bad array size".
C14_ArrayLength ==
    (trans.op = "parseType" /\ trans.arg.k = "array") =>
        LET len == trans.arg.len
            r   == trans.res
        IN  /\ r.st = "ok" =>
                  /\ r.val.k = "array"
                  /\ (r.val.len = -1) <=> (len.k = "nil")
                  /\ len.k # "nil" =>
                        r.val.len = DecimalValue(len.value, 0) /\ r.val.len >= 0
            /\ (len.k # "nil" /\ ~IsDecimalLiteral(len)) =>
                  r.st = "err" /\ r.err.kind = "bad array size"

(***************************************************************************)
(* iterInterfaces and iterStruct as goroutines sending on an unbuffered    *)
(* channel, and parseFile's two range loops as the receiver.  A send and   *)
(* the matching receive are one step; a sender that has reached `ch <-`    *)
(* waits in pc = "send".                                                   *)
(***************************************************************************)
MaxChanDecls == 3   \* declarations of the scanned file

ChanDecls ==
    {InterfaceDecl("I", <<FuncField("M1", PredeclaredExpr("int"))>>),
     InterfaceDecl("J", <<OtherField>>),
     InterfaceDecl("K", <<IdentField("I"), FuncField("M3", PredeclaredExpr("int"))>>),
     StructDecl("S"),
     FuncDecl("m1", "S", TRUE)}

ChanFiles ==
    UNION {{d \in [1..n -> ChanDecls] : \A i, j \in 1..n : i # j => d[i] # d[j]} :
                n \in 0..MaxChanDecls}

InitChan ==
    /\ chFile \in ChanFiles
    /\ prodI = NoProducer
    /\ prodS = NoProducer
    /\ cons = [NoConsumer EXCEPT !.pc = "start"]
    /\ sent = <<>>
    /\ received = <<>>
    /\ ResolveIdle /\ ScanIdle /\ AllocIdle /\ TransIdle /\ LocIdle /\ ImpIdle

\* parseFile line 216 calling iterInterfaces: lines 727-728 and 749
StartInterfaces ==
    /\ cons.pc = "start"
    /\ prodI' = [pc |-> "loop", items |-> chFile, idx |-> 1]
    /\ cons' = [cons EXCEPT !.pc = "recv"]
    /\ UNCHANGED <<chFile, prodS, sent, received, resolveVars, scanVars, allocVars, transVars, locVars, impVars>>

\* iterInterfaces lines 729-743: a declaration that is no interface type
ProducerSkip ==
    /\ prodI.pc = "loop"
    /\ prodI.idx <= Len(prodI.items)
    /\ prodI.items[prodI.idx].k # "iface"
    /\ prodI' = [prodI EXCEPT !.idx = @ + 1]
    /\ UNCHANGED <<chFile, prodS, cons, sent, received, resolveVars, scanVars, allocVars, transVars, locVars, impVars>>

\* iterInterfaces line 745: the goroutine reaches the send and waits
ProducerSend ==
    /\ prodI.pc = "loop"
    /\ prodI.idx <= Len(prodI.items)
    /\ prodI.items[prodI.idx].k = "iface"
    /\ prodI' = [prodI EXCEPT !.pc = "send"]
    /\ sent' = Append(sent, prodI.items[prodI.idx].name)
    /\ UNCHANGED <<chFile, prodS, cons, received, resolveVars, scanVars, allocVars, transVars, locVars, impVars>>

\* the mutated hand-over: the sender stays on the declaration it has sent
AfterSendRepeat(prod) == [prod EXCEPT !.pc = "loop"]

\* the sender once its send has been taken: on to the next declaration
AfterSend(prod) == [prod EXCEPT !.pc = "loop", !.idx = @ + 1]

\* line 745 completing together with the receive of line 216
Receive ==
    /\ cons.pc = "recv"
    /\ prodI.pc = "send"
    /\ LET d == prodI.items[prodI.idx]
       IN  /\ cons' = [cons EXCEPT !.pc = "resolve", !.ni = namedInterface(d.name, d.it)]
           /\ received' = Append(received, d.name)
    /\ prodI' = AfterSend(prodI)
    /\ UNCHANGED <<chFile, prodS, sent, resolveVars, scanVars, allocVars, transVars, locVars, impVars>>

\* iterInterfaces line 747: close(ch), and the goroutine ends
ProducerClose ==
    /\ prodI.pc = "loop"
    /\ prodI.idx > Len(prodI.items)
    /\ prodI' = [prodI EXCEPT !.pc = "done"]
    /\ UNCHANGED <<chFile, prodS, cons, sent, received, resolveVars, scanVars, allocVars, transVars, locVars, impVars>>

\* p.parseInterface of line 217 for every interface type a scanned file
\* declares, tabulated by file and by type
InterfacesOf(f) == {f[i].it : i \in {j \in DOMAIN f : f[j].k = "iface"}}

parseInterfaceIn ==
    {[file |-> c[1], it |-> c[2],
      r |-> InSourceOrder(FreshParser(File(S, <<>>, c[1]), <<>>), SelfPath, c[2], MaxDepth)] :
        c \in UNION {{<<f, it>> : it \in InterfacesOf(f)} : f \in ChanFiles}}

parseInterfaceOf(f, it) == (CHOOSE e \in parseInterfaceIn : e.file = f /\ e.it = it).r

\* parseFile lines 217-221
Resolve ==
    /\ cons.pc = "resolve"
    /\ LET r == parseInterfaceOf(chFile, cons.ni.it)
       IN  IF r.ok
           THEN cons' = [cons EXCEPT !.pc = "recv",
                                     !.is = Append(@, Interface(cons.ni.name, r.methods))]
           ELSE cons' = [cons EXCEPT !.pc = "returned", !.ret = "err"]
    /\ UNCHANGED <<chFile, prodI, prodS, sent, received, resolveVars, scanVars, allocVars, transVars, locVars, impVars>>

\* line 216 on the closed channel, then line 225 calling iterStruct (lines
\* 673-674 and 722); what that goroutine will send is one of the sequences
\* iterStruct's map ranges allow
EndInterfaces ==
    /\ cons.pc = "recv"
    /\ prodI.pc = "done"
    /\ \E items \in iterStruct(chFile) :
          prodS' = [pc |-> "loop", items |-> items, idx |-> 1]
    /\ cons' = [cons EXCEPT !.pc = "recvS"]
    /\ UNCHANGED <<chFile, prodI, sent, received, resolveVars, scanVars, allocVars, transVars, locVars, impVars>>

\* iterStruct line 717: the goroutine reaches the send and waits
StructSend ==
    /\ prodS.pc = "loop"
    /\ prodS.idx <= Len(prodS.items)
    /\ prodS' = [prodS EXCEPT !.pc = "send"]
    /\ UNCHANGED <<chFile, prodI, cons, sent, received, resolveVars, scanVars, allocVars, transVars, locVars, impVars>>

\* line 717 completing with the receive of line 225, and lines 226-230
ReceiveStruct ==
    /\ cons.pc = "recvS"
    /\ prodS.pc = "send"
    /\ cons' = [cons EXCEPT !.ss = Append(@, parseStruct(prodS.items[prodS.idx]))]
    /\ prodS' = AfterSend(prodS)
    /\ UNCHANGED <<chFile, prodI, sent, received, resolveVars, scanVars, allocVars, transVars, locVars, impVars>>

\* iterStruct line 720
StructClose ==
    /\ prodS.pc = "loop"
    /\ prodS.idx > Len(prodS.items)
    /\ prodS' = [prodS EXCEPT !.pc = "done"]
    /\ UNCHANGED <<chFile, prodI, cons, sent, received, resolveVars, scanVars, allocVars, transVars, locVars, impVars>>

\* line 225 on the closed channel and lines 232-238
ReturnPackage ==
    /\ cons.pc = "recvS"
    /\ prodS.pc = "done"
    /\ cons' = [cons EXCEPT !.pc = "returned", !.ret = "pkg"]
    /\ UNCHANGED <<chFile, prodI, prodS, sent, received, resolveVars, scanVars, allocVars, transVars, locVars, impVars>>

NextChan ==
    \/ StartInterfaces \/ ProducerSkip \/ ProducerSend \/ Receive \/ ProducerClose
    \/ Resolve \/ EndInterfaces \/ StructSend \/ ReceiveStruct \/ StructClose
    \/ ReturnPackage

SpecChan == InitChan /\ [][NextChan]_vars

\* the Go scheduler runs every goroutine that can take a step
SpecChanFair ==
    /\ SpecChan
    /\ WF_vars(StartInterfaces) /\ WF_vars(ProducerSkip) /\ WF_vars(ProducerSend)
    /\ WF_vars(Receive) /\ WF_vars(ProducerClose) /\ WF_vars(Resolve)
    /\ WF_vars(EndInterfaces) /\ WF_vars(StructSend) /\ WF_vars(ReceiveStruct)
    /\ WF_vars(StructClose) /\ WF_vars(ReturnPackage)

IsPrefix(a, b) == Len(a) <= Len(b) /\ a = SubSeq(b, 1, Len(a))

\* the interface declarations of the file, in source order
DeclaredInterfaces ==
    LET nis == iterInterfaces(chFile) IN [k \in DOMAIN nis |-> nis[k].name]

\* C15: parseFile is given the interface declarations in the sender's order,
\* which is source order, each once; the sender is at most one declaration
\* ahead, waiting in its send until that one is taken; the channel is closed
\* only after the last declaration has been taken.
C15_HandOverInSourceOrder ==
    /\ IsPrefix(sent, DeclaredInterfaces)
    /\ IsPrefix(received, sent)
    /\ Len(sent) - Len(received) \in {0, 1}
    /\ (prodI.pc = "send") <=> (Len(sent) = Len(received) + 1)
    /\ prodI.pc = "done" => received = DeclaredInterfaces
    /\ cons.pc \in {"recvS"} => received = DeclaredInterfaces
    /\ Len(cons.is) <= Len(received)
    /\ \A k \in DOMAIN cons.is : cons.is[k].name = received[k]

\* two interfaces with another declaration between them have been handed
\* over and the channel is closed
C15_Witness ==
    /\ prodI.pc = "done"
    /\ Len(received) = 2
    /\ Len(chFile) = 3
    /\ chFile[2].k # "iface"
    /\ Len(cons.is) = 2

Started(prod) == prod.pc # "none"

\* C19: once parseFile has returned, with a Package or with an error, every
\* goroutine it started comes to its end (its channel closed); none stays in
\* a send that nobody will take.
C19_ProducersFinish ==
    (cons.pc = "returned") ~>
        /\ Started(prodI) => prodI.pc = "done"
        /\ Started(prodS) => prodS.pc = "done"

(***************************************************************************)
(* parsePackageImport.  A directory is a clean absolute path: the token    *)
(* "/" alone for the root, else "/" and a name for each component.         *)
(***************************************************************************)
MaxDirDepth == 3    \* components of srcDir

Root == <<Slash>>
Colon == ":"        \* os.PathListSeparator

\* the mutated parent: straight to the root
DirToRoot(path) == Root

\* filepath.Dir on a clean absolute path
Dir(path) ==
    LET i == LastIndexOf(path, Slash)
    IN  IF i <= 1 THEN Root ELSE SubSeq(path, 1, i - 1)

HasPrefix(str, prefix) ==
    Len(prefix) <= Len(str) /\ SubSeq(str, 1, Len(prefix)) = prefix

TrimPrefix(str, prefix) ==
    IF HasPrefix(str, prefix) THEN SubSeq(str, Len(prefix) + 1, Len(str)) ELSE str

RECURSIVE Clean(_)
\* filepath.Clean on paths without "." and "..": runs of separators become
\* one, a trailing separator goes unless the path is the root
Clean(path) ==
    IF Len(path) <= 1 THEN path
    ELSE IF path[Len(path)] = Slash THEN Clean(SubSeq(path, 1, Len(path) - 1))
    ELSE IF path[1] = Slash /\ path[2] = Slash THEN Clean(Tail(path))
    ELSE <<path[1]>> \o Clean(Tail(path))

\* filepath.Join of two elements: empty elements are dropped
Join(a, b) ==
    IF a = EmptyStr THEN (IF b = EmptyStr THEN EmptyStr ELSE Clean(b))
    ELSE IF b = EmptyStr THEN Clean(a)
    ELSE Clean(a \o <<Slash>> \o b)

RECURSIVE Split(_, _)
\* strings.Split
Split(str, sep) ==
    LET i == IndexOf(str, sep)
    IN  IF i = 0 THEN <<str>>
        ELSE <<SubSeq(str, 1, i - 1)>> \o Split(SubSeq(str, i + 1, Len(str)), sep)

DirNames == {"w", "src"}

RECURSIVE DirsOfDepth(_)
DirsOfDepth(n) ==
    IF n = 0 THEN {EmptyStr}
    ELSE {d \o <<Slash, c>> : d \in DirsOfDepth(n - 1), c \in DirNames}

SrcDirs == {Root} \cup UNION {DirsOfDepth(n) : n \in 1..MaxDirDepth}

W == <<Slash, "w">>
WSrc == <<Slash, "w", Slash, "src">>
WSrcW == <<Slash, "w", Slash, "src", Slash, "w">>

\* what reading go.mod in a directory gives: "none" (os.IsNotExist), "bad"
\* (another error) or the module path modfile.ModulePath finds
NoMod == <<"none">>
BadMod == <<"bad">>
ModsOf(d) ==
    (IF d = Root THEN {NoMod} ELSE {NoMod, BadMod}) \cup
    {IF d = Root THEN <<"ex", Slash, "r">>
     ELSE IF d = W THEN <<"ex", Slash, "w">> ELSE <<"ex", Slash, "m">>}

GoModDirs == {Root, W, WSrcW}
GoMods == {f \in [GoModDirs -> UNION {ModsOf(d) : d \in GoModDirs}] :
                \A d \in GoModDirs : f[d] \in ModsOf(d)}

GoPaths ==
    {EmptyStr, W, <<Slash, "src", Colon>> \o W, WSrc \o <<Colon>> \o W}
ModuleModes == {"", "off"}

ReadGoMod(mods, dir) == IF Has(mods, dir) THEN mods[dir] ELSE NoMod

InitLoc ==
    /\ env \in {[srcDir |-> d, mods |-> f, gopath |-> g, mode |-> mm] :
                    d \in SrcDirs, f \in GoMods, g \in GoPaths, mm \in ModuleModes}
    /\ walk = [NoWalk EXCEPT !.pc = "start"]
    /\ ResolveIdle /\ ScanIdle /\ AllocIdle /\ TransIdle /\ ChanIdle /\ ImpIdle

\* lines 795-798
LocStart ==
    /\ walk.pc = "start"
    /\ walk' = IF env.mode # "off"
               THEN [walk EXCEPT !.pc = "walk", !.currentDir = env.srcDir]
               ELSE [walk EXCEPT !.pc = "gopath"]
    /\ UNCHANGED <<env, resolveVars, scanVars, allocVars, transVars, chanVars, impVars>>

\* lines 800-807: no go.mod here; up to the parent
LocUp ==
    /\ walk.pc = "walk"
    /\ ReadGoMod(env.mods, walk.currentDir) = NoMod
    /\ walk.currentDir # Dir(walk.currentDir)
    /\ walk' = [walk EXCEPT !.currentDir = Dir(walk.currentDir)]
    /\ UNCHANGED <<env, resolveVars, scanVars, allocVars, transVars, chanVars, impVars>>

\* lines 800-804: no go.mod at the root
LocAtRoot ==
    /\ walk.pc = "walk"
    /\ ReadGoMod(env.mods, walk.currentDir) = NoMod
    /\ walk.currentDir = Dir(walk.currentDir)
    /\ walk' = [walk EXCEPT !.pc = "gopath"]
    /\ UNCHANGED <<env, resolveVars, scanVars, allocVars, transVars, chanVars, impVars>>

\* lines 808-809: go.mod is there and cannot be read
LocReadError ==
    /\ walk.pc = "walk"
    /\ ReadGoMod(env.mods, walk.currentDir) = BadMod
    /\ walk' = [walk EXCEPT !.pc = "returned", !.err = "read"]
    /\ UNCHANGED <<env, resolveVars, scanVars, allocVars, transVars, chanVars, impVars>>

\* lines 811-812
LocModule ==
    /\ walk.pc = "walk"
    /\ ReadGoMod(env.mods, walk.currentDir) \notin {NoMod, BadMod}
    /\ walk' = [walk EXCEPT !.pc = "returned",
                            !.res = Join(ReadGoMod(env.mods, walk.currentDir),
                                         TrimPrefix(env.srcDir, walk.currentDir))]
    /\ UNCHANGED <<env, resolveVars, scanVars, allocVars, transVars, chanVars, impVars>>

\* line 822
SourceRoot(goPath) == Join(goPath, <<"src">>) \o <<Slash>>

RECURSIVE GoPathLoop(_, _)
\* lines 821-827
GoPathLoop(goPathList, srcDir) ==
    IF goPathList = <<>> THEN [res |-> EmptyStr, err |-> "outside GOPATH"]
    ELSE IF HasPrefix(srcDir, SourceRoot(Head(goPathList)))
    THEN [res |-> TrimPrefix(srcDir, SourceRoot(Head(goPathList))), err |-> ""]
    ELSE GoPathLoop(Tail(goPathList), srcDir)

\* lines 816-827
LocGoPath ==
    /\ walk.pc = "gopath"
    /\ LET r == IF env.gopath = EmptyStr THEN [res |-> EmptyStr, err |-> "GOPATH is not set"]
                ELSE GoPathLoop(Split(env.gopath, Colon), env.srcDir)
       IN  walk' = [walk EXCEPT !.pc = "returned", !.res = r.res, !.err = r.err]
    /\ UNCHANGED <<env, resolveVars, scanVars, allocVars, transVars, chanVars, impVars>>

NextLoc == LocStart \/ LocUp \/ LocAtRoot \/ LocReadError \/ LocModule \/ LocGoPath

SpecLoc == InitLoc /\ [][NextLoc]_vars

\* the call keeps running until it returns
SpecLocFair == SpecLoc /\ WF_vars(NextLoc)

\* srcDir and the directories above it
Ancestors(d) == {Root} \cup {SubSeq(d, 1, 2 * k) : k \in 1..(Len(d) \div 2)}

\* those of them that hold a go.mod
Holding == {a \in Ancestors(env.srcDir) : ReadGoMod(env.mods, a) # NoMod}
Nearest == CHOOSE a \in Holding : \A b \in Holding : Len(b) <= Len(a)

\* the part of d below its ancestor a
Below(d, a) == IF a = Root THEN Tail(d) ELSE SubSeq(d, Len(a) + 2, Len(d))

Joined(m, rest) == IF rest = EmptyStr THEN m ELSE m \o <<Slash>> \o rest

\* the configured roots: src under each entry of GOPATH
ConfiguredRoots ==
    IF env.gopath = EmptyStr THEN <<>>
    ELSE LET l == Split(env.gopath, Colon) IN [i \in DOMAIN l |-> l[i] \o <<Slash, "src">>]

Hits ==
    {i \in DOMAIN ConfiguredRoots :
        ConfiguredRoots[i] \in Ancestors(env.srcDir) /\ ConfiguredRoots[i] # env.srcDir}

FirstHit == CHOOSE i \in Hits : \A j \in Hits : i <= j

Failed == walk.err # "" /\ walk.res = EmptyStr
Gave(path) == walk.err = "" /\ walk.res = path

C16_Fallback ==
    IF env.gopath = EmptyStr THEN Failed /\ walk.err = "GOPATH is not set"
    ELSE IF Hits = {} THEN Failed /\ walk.err = "outside GOPATH"
    ELSE Gave(Below(env.srcDir, ConfiguredRoots[FirstHit]))

C16_Result ==
    walk.pc = "returned" =>
        IF env.mode # "off" /\ Holding # {}
        THEN IF ReadGoMod(env.mods, Nearest) = BadMod
             THEN Failed /\ walk.err = "read"
             ELSE Gave(Joined(ReadGoMod(env.mods, Nearest), Below(env.srcDir, Nearest)))
        ELSE C16_Fallback

\* the steps the call can still take, at most
C16_Distance ==
    CASE walk.pc = "start" -> Len(env.srcDir) + 3
      [] walk.pc = "walk" -> Len(walk.currentDir) + 2
      [] walk.pc = "gopath" -> 1
      [] OTHER -> 0

\* C16: unless module mode is off, the call walks from srcDir up to the root
\* and takes the nearest directory with a go.mod: it returns the module path
\* joined with the part of srcDir below that directory, or the read error
\* when that go.mod cannot be read; with module mode off, or without any
\* go.mod, it returns srcDir relative to the first GOPATH entry's src that
\* lies above it, and fails when there is none; the call always returns.
\* (the call returns: until it has, a step can be taken, and every step
\* brings the call nearer to its return)
C16_ModuleUnlessOffThenGoPath ==
    /\ [](C16_Result /\ (walk.pc # "returned" => ENABLED NextLoc))
    /\ [][C16_Distance' < C16_Distance]_vars

\* the walk went up from /w/src/w, which has no go.mod, to /w, which has one
C16_Witness ==
    /\ walk.pc = "returned"
    /\ env.mode # "off"
    /\ env.srcDir = WSrcW
    /\ ReadGoMod(env.mods, WSrcW) = NoMod
    /\ ReadGoMod(env.mods, W) = <<"ex", Slash, "w">>
    /\ walk.res = <<"ex", Slash, "w", Slash, "src", Slash, "w">>

\* C16 as stated: the nearest go.mod decides whenever one exists, and only
\* without any is the GOPATH convention used
C16_NearestManifestElseWorkspace ==
    walk.pc = "returned" =>
        IF Holding # {}
        THEN Gave(Joined(ReadGoMod(env.mods, Nearest), Below(env.srcDir, Nearest)))
        ELSE IF Hits # {}
        THEN \E i \in Hits : Gave(Below(env.srcDir, ConfiguredRoots[i]))
        ELSE Failed

(***************************************************************************)
(* importsOfFile applied to files with import lists drawn from a bounded   *)
(* set.                                                                    *)
(***************************************************************************)
MaxImports == 3     \* import specs of the file

ImpAliases == {NoAlias, X, Y, BlankAlias, DotAlias}
ImpPaths == {PX, PZ, QX}
ImpSpecs == {ImportSpec(a, path) : a \in ImpAliases, path \in ImpPaths}
ImpLists == UNION {[1..n -> ImpSpecs] : n \in 0..MaxImports}

InitImp ==
    /\ impFile \in {File(S, l, <<>>) : l \in ImpLists}
    /\ impTable = NoTable
    /\ ResolveIdle /\ ScanIdle /\ AllocIdle /\ TransIdle /\ ChanIdle /\ LocIdle

ApplyImportsOfFile ==
    /\ ~impTable.built
    /\ LET r == importsOfFile(impFile)
       IN  impTable' = [built |-> TRUE, normal |-> r.normal, dot |-> r.dot]
    /\ UNCHANGED <<impFile, resolveVars, scanVars, allocVars, transVars, chanVars, locVars>>

NextImp == ApplyImportsOfFile

SpecImp == InitImp /\ [][NextImp]_vars

\* C17: every duplicateImport of a file's import table names the short name
\* it is filed under and holds two or more paths, no two of them equal; so
\* one path imported twice under one name gives no duplicateImport.
C17_DuplicatesAreDistinctPaths ==
    \A n \in DOMAIN impTable.normal :
        LET e == impTable.normal[n]
        IN  e.t = "dup" =>
                /\ e.name = n
                /\ Len(e.duplicates) >= 2
                /\ \A i, j \in DOMAIN e.duplicates : i # j => e.duplicates[i] # e.duplicates[j]

====
